---- MODULE Spec2Model ----
(***************************************************************************)
(* MergeConflictsDialog (app/src/ui/merge-conflicts/merge-conflicts-      *)
(* dialog.tsx): the props of one dialog, what render() derives from them, *)
(* and the asynchronous onSubmit / onCancel handlers with the effects     *)
(* each invocation performs on its collaborators (dispatcher, onDismissed)*)
(***************************************************************************)
EXTENDS Integers, Sequences, FiniteSets, TLC

VARIABLES
  status,             \* props.status.files: the snapshot, a sequence of file records
  repository,         \* props.repository
  currentBranch,      \* props.currentBranch
  comparisonBranch,   \* props.comparisonBranch
  view,               \* <<>> before the first render, else <<what render() returned>>
  open,               \* FALSE once props.onDismissed has been called
  calls,              \* the handler invocations of this dialog, in invocation order
  openedWithResolved  \* history: the snapshot the dialog was constructed with held a Resolved file

vars == <<status, repository, currentBranch, comparisonBranch, view, open,
          calls, openedWithResolved>>

props == <<repository, currentBranch, comparisonBranch>>

-----------------------------------------------------------------------------
(* Bounds *)

MaxMarkers == 7

MaxFiles == 2

MaxGateFiles == 2

MaxCalls == 2

-----------------------------------------------------------------------------
(* Input domains *)

Paths == {"a.txt", "b.txt"}

Repositories == {"desktop"}

Branches == {"master", "feature"}

\* AppFileStatus: the two statuses the dialog reads, and one of the others.
AppFileStatus == {"Conflicted", "Resolved", "Modified"}

File(path, st, markers) ==
  [path |-> path, status |-> st, conflictMarkers |-> markers]

SeqsUpTo(S, n) == UNION {[1..k -> S] : k \in 0..n}

EvalFiles ==
  {File(p, "Conflicted", m) : p \in Paths, m \in 0..MaxMarkers}
    \cup {File(p, st, 0) : p \in Paths, st \in AppFileStatus \ {"Conflicted"}}

EvalSnapshots == SeqsUpTo(EvalFiles, MaxFiles)

GateFiles ==
  {File("a.txt", st, IF st = "Conflicted" THEN 3 ELSE 0) : st \in AppFileStatus}

GateSnapshots == SeqsUpTo(GateFiles, MaxGateFiles)

-----------------------------------------------------------------------------
(* Conflict status evaluation: the pure helpers of the component *)

calculateConflictsFloor(conflictMarkers) == conflictMarkers \div 3

\* Math.ceil(conflictMarkers / 3): the quotient, one more when a remainder is left.
calculateConflicts(conflictMarkers) ==
  (conflictMarkers \div 3) + (IF conflictMarkers % 3 > 0 THEN 1 ELSE 0)

titleString(currentBranchName, comparisonBranchName) ==
  "Resolve conflicts before merging " \o comparisonBranchName
    \o " into " \o currentBranchName

renderResolvedFile(path) ==
  [className |-> "unmerged-file-status-resolved",
   path |-> path,
   message |-> "No conflicts remaining"]

renderConflictedFile(path, conflicts) ==
  LET humanReadableConflicts == calculateConflicts(conflicts)
      message == IF humanReadableConflicts = 1
                 THEN "1 conflict"
                 ELSE ToString(humanReadableConflicts) \o " conflicts"
  IN  [className |-> "unmerged-file-status-conflicts",
       path |-> path,
       message |-> message,
       humanReadableConflicts |-> humanReadableConflicts]

renderUnmergedFile(file) ==
  CASE file.status = "Resolved" -> renderResolvedFile(file.path)
    [] file.status = "Conflicted" ->
         renderConflictedFile(file.path, file.conflictMarkers)
    [] OTHER -> [className |-> "null"]

renderUnmergedFiles(files) ==
  [i \in 1..Len(files) |-> renderUnmergedFile(files[i])]

RECURSIVE getUnmergedFilesOnlyConflicted(_)
getUnmergedFilesOnlyConflicted(files) ==
  IF files = <<>> THEN <<>>
  ELSE (IF Head(files).status = "Conflicted" THEN <<Head(files)>> ELSE <<>>)
         \o getUnmergedFilesOnlyConflicted(Tail(files))

\* props.status.files.filter(...): the records kept, in the order met.
RECURSIVE getUnmergedFiles(_)
getUnmergedFiles(files) ==
  IF files = <<>> THEN <<>>
  ELSE (IF Head(files).status = "Conflicted" \/ Head(files).status = "Resolved"
        THEN <<Head(files)>> ELSE <<>>)
         \o getUnmergedFiles(Tail(files))

renderUnmergedFilesSummary(unmergedFiles) ==
  IF unmergedFiles = 1 THEN "1 conflicted file"
  ELSE ToString(unmergedFiles) \o " conflicted files"

anyConflictedFilesNonEmpty(unmergedFiles) == Len(unmergedFiles) > 0

\* unmergedFiles.some(f => f.status === AppFileStatus.Conflicted)
anyConflictedFiles(unmergedFiles) ==
  \E i \in 1..Len(unmergedFiles) : unmergedFiles[i].status = "Conflicted"

anyResolvedFilesAtOpen(unmergedFiles) == openedWithResolved

\* this.getUnmergedFiles().some(f => f.status === AppFileStatus.Resolved)
anyResolvedFiles(unmergedFiles) ==
  \E i \in 1..Len(unmergedFiles) : unmergedFiles[i].status = "Resolved"

render(files, currentBranchName, comparisonBranchName) ==
  LET unmergedFiles == getUnmergedFiles(files)
      anyConflicted == anyConflictedFiles(unmergedFiles)
  IN  [title |-> titleString(currentBranchName, comparisonBranchName),
       unmergedFiles |-> unmergedFiles,
       summary |-> renderUnmergedFilesSummary(Len(unmergedFiles)),
       items |-> renderUnmergedFiles(unmergedFiles),
       submitDisabled |-> anyConflicted,
       tooltip |-> IF anyConflicted
                   THEN "Resolve all changes before merging" ELSE "undefined"]

-----------------------------------------------------------------------------
(* Merge action gate: the effects of one handler invocation, in order *)

Ev(op, args) == [op |-> op, args |-> args]

createMergeCommit == Ev("createMergeCommit", <<repository>>)

abortMerge == Ev("abortMerge", <<repository>>)

changeRepositorySection ==
  Ev("changeRepositorySection", <<repository, "Changes">>)

onDismissed == Ev("onDismissed", <<>>)

showPopupBranchesSwapped ==
  Ev("showPopup", <<"AbortMerge", repository, comparisonBranch, currentBranch>>)

showPopup ==
  Ev("showPopup", <<"AbortMerge", repository, currentBranch, comparisonBranch>>)

\* The awaited promise settled: fulfilled or rejected.
resolved == Ev("resolved", <<>>)

rejected == Ev("rejected", <<>>)

Dismisses(events) == \E i \in 1..Len(events) : events[i].op = "onDismissed"

\* One invocation: the handler, what invoked it, for onCancel whether the
\* snapshot current at the invocation held a Resolved record (onSubmit does not
\* read the statuses), where the handler stands, and the effects it has
\* performed so far.
Call(handler, via, pc, trace) ==
  [handler |-> handler,
   via |-> via,
   hadResolved |-> /\ handler # "onSubmit"
                   /\ \E i \in 1..Len(status) : status[i].status = "Resolved",
   pc |-> pc,
   trace |-> trace]

Invoke(handler, via, pc, trace) ==
  /\ open
  /\ view # <<>>
  /\ Len(calls) < MaxCalls
  /\ calls' = Append(calls, Call(handler, via, pc, trace))
  /\ open' = (open /\ ~Dismisses(trace))
  /\ UNCHANGED <<status, props, view, openedWithResolved>>

onSubmitAfterAwaitDismissFirst == <<onDismissed, changeRepositorySection>>

\* onSubmit after the await: navigate, then dismiss.
onSubmitAfterAwait == <<changeRepositorySection, onDismissed>>

onSubmit(via) == Invoke("onSubmit", via, "await", <<createMergeCommit>>)

onCancelBeforeAwaitDismissing == <<onDismissed, abortMerge>>

\* onCancel without resolved files, up to the await.
onCancelBeforeAwait == <<abortMerge>>

\* onCancel without resolved files, after the await.
onCancelAfterAwait == <<onDismissed>>

onCancelConfirm == <<onDismissed, showPopup>>

onCancel(via) ==
  IF ~anyResolvedFiles(getUnmergedFiles(status))
  THEN Invoke("onCancel", via, "await", onCancelBeforeAwait)
  ELSE Invoke("onCancel", via, "done", onCancelConfirm)

AfterAwait(handler) ==
  IF handler = "onSubmit" THEN onSubmitAfterAwait ELSE onCancelAfterAwait

AfterRejectionContinues(handler) == AfterAwait(handler)

\* A rejected await throws out of the async handler: nothing after it runs.
AfterRejection(handler) == <<>>

-----------------------------------------------------------------------------
(* Actions *)

\* The first render of the constructed component.
Mount ==
  /\ view = <<>>
  /\ view' = <<render(status, currentBranch, comparisonBranch)>>
  /\ UNCHANGED <<status, props, open, calls, openedWithResolved>>

\* The parent passes a new status snapshot; the component renders again.
StatusUpdate ==
  /\ open
  /\ view # <<>>
  /\ \E s \in GateSnapshots \ {status} :
       /\ status' = s
       /\ view' = <<render(s, currentBranch, comparisonBranch)>>
  /\ UNCHANGED <<props, open, calls, openedWithResolved>>

\* <Button type="submit" disabled={anyConflictedFiles}> submits the Dialog's form.
SubmitButtonClick ==
  /\ view # <<>>
  /\ ~view[1].submitDisabled
  /\ onSubmit("submitButton")

\* <Button onClick={this.onCancel}>
CancelButtonClick == onCancel("cancelButton")

DialogOnDismissedJustCloses == Invoke("none", "dialogDismiss", "done", <<onDismissed>>)

\* <Dialog onDismissed={this.onCancel}>
DialogOnDismissed == onCancel("dialogDismiss")

\* The awaited operation of invocation i is fulfilled and the handler resumes.
OperationResolves(i) ==
  /\ calls[i].pc = "await"
  /\ LET rest == <<resolved>> \o AfterAwait(calls[i].handler)
     IN  /\ calls' = [calls EXCEPT ![i].pc = "done", ![i].trace = @ \o rest]
         /\ open' = (open /\ ~Dismisses(rest))
  /\ UNCHANGED <<status, props, view, openedWithResolved>>

\* The awaited operation of invocation i is rejected.
OperationRejects(i) ==
  /\ calls[i].pc = "await"
  /\ LET rest == <<rejected>> \o AfterRejection(calls[i].handler)
     IN  /\ calls' = [calls EXCEPT ![i].pc = "rejected", ![i].trace = @ \o rest]
         /\ open' = (open /\ ~Dismisses(rest))
  /\ UNCHANGED <<status, props, view, openedWithResolved>>

InitProps ==
  /\ repository \in Repositories
  /\ currentBranch \in Branches
  /\ comparisonBranch \in Branches \ {currentBranch}
  /\ view = <<>>
  /\ open = TRUE
  /\ calls = <<>>
  /\ openedWithResolved = \E i \in 1..Len(status) : status[i].status = "Resolved"

Init ==
  /\ status \in GateSnapshots
  /\ InitProps

Next ==
  \/ Mount
  \/ StatusUpdate
  \/ SubmitButtonClick
  \/ CancelButtonClick
  \/ DialogOnDismissed
  \/ \E i \in 1..Len(calls) : OperationResolves(i)
  \/ \E i \in 1..Len(calls) : OperationRejects(i)

Spec == Init /\ [][Next]_vars

\* The evaluator alone: any snapshot, rendered once.
InitEval ==
  /\ status \in EvalSnapshots
  /\ InitProps

NextEval == Mount

SpecEval == InitEval /\ [][NextEval]_vars

-----------------------------------------------------------------------------
(* Properties *)

HasOp(trace, op) == \E k \in 1..Len(trace) : trace[k].op = op

Before(trace, first, then) ==
  \A k \in 1..Len(trace) :
    trace[k].op = then => \E j \in 1..(k - 1) : trace[j].op = first

CancelCalls == {i \in 1..Len(calls) : calls[i].handler = "onCancel"}

C2_FinalizeNavigateDismiss ==
  \A i \in 1..Len(calls) :
    calls[i].handler = "onSubmit" =>
      LET t == calls[i].trace
      IN  /\ t[1].op = "createMergeCommit"
          /\ Before(t, "createMergeCommit", "resolved")
          /\ Before(t, "resolved", "changeRepositorySection")
          /\ Before(t, "changeRepositorySection", "onDismissed")
          /\ HasOp(t, "resolved") =>
               /\ Len(t) = 4
               /\ t[3] = [op |-> "changeRepositorySection",
                          args |-> <<repository, "Changes">>]
               /\ t[4].op = "onDismissed"

C2_Witness ==
  \E i \in 1..Len(calls) :
    /\ calls[i].handler = "onSubmit"
    /\ HasOp(calls[i].trace, "resolved")
    /\ ~open

C4_CancelWithResolvedConfirms ==
  \A i \in CancelCalls :
    calls[i].hadResolved =>
      /\ calls[i].trace =
           << [op |-> "onDismissed", args |-> <<>>],
              [op |-> "showPopup",
               args |-> <<"AbortMerge", repository, currentBranch,
                          comparisonBranch>>] >>
      /\ ~HasOp(calls[i].trace, "abortMerge")

C4_Witness ==
  \E i \in CancelCalls :
    /\ calls[i].hadResolved
    /\ calls[i].via = "cancelButton"
    /\ HasOp(calls[i].trace, "showPopup")

\* C5: which path an onCancel invocation takes follows the snapshot current at
\* the invocation, whatever the snapshot at construction was: the popup is
\* requested iff that snapshot holds a Resolved record, abortMerge is started
\* iff it holds none.
C5_CancelReadsCurrentSnapshot ==
  \A i \in CancelCalls :
    /\ HasOp(calls[i].trace, "showPopup") <=> calls[i].hadResolved
    /\ HasOp(calls[i].trace, "abortMerge") <=> ~calls[i].hadResolved

C5_Witness ==
  \E i \in CancelCalls :
    /\ ~openedWithResolved
    /\ calls[i].hadResolved
    /\ HasOp(calls[i].trace, "showPopup")

\* C6: the rendered submit button is enabled iff no record of the snapshot is
\* Conflicted.
C6_CommitEnabledIffNoConflicted ==
  view # <<>> =>
    (~view[1].submitDisabled
       <=> \A i \in 1..Len(status) : status[i].status # "Conflicted")

C6_Witness ==
  /\ view # <<>>
  /\ Len(status) > 0
  /\ \A i \in 1..Len(status) : status[i].status = "Resolved"
  /\ ~view[1].submitDisabled
  /\ \E i \in 1..Len(calls) : calls[i].via = "submitButton"

UnmergedIndexes ==
  {i \in 1..Len(status) : status[i].status \in {"Resolved", "Conflicted"}}

\* C7: the unmerged files render() works on are exactly the Resolved and
\* Conflicted records of the snapshot, each once per occurrence, in the
\* snapshot's order: the k-th of them is the k-th such record.
C7_UnmergedFilesExactInOrder ==
  view # <<>> =>
    LET u == view[1].unmergedFiles
    IN  /\ Len(u) = Cardinality(UnmergedIndexes)
        /\ \A i \in UnmergedIndexes :
             u[Cardinality({j \in UnmergedIndexes : j <= i})] = status[i]

C7_Witness ==
  /\ view # <<>>
  /\ Len(status) = 2
  /\ status[1] = status[2]
  /\ status[1].status = "Resolved"
  /\ Len(view[1].unmergedFiles) = 2

\* C8: the conflict count rendered for a Conflicted file with m markers is the
\* least n with 3n >= m: ceil(m/3), at least 1 when m >= 1.
C8_ConflictCountIsCeiling ==
  view # <<>> =>
    \A k \in 1..Len(view[1].items) :
      view[1].items[k].className = "unmerged-file-status-conflicts" =>
        LET m == view[1].unmergedFiles[k].conflictMarkers
            n == view[1].items[k].humanReadableConflicts
        IN  /\ 3 * n >= m
            /\ 3 * (n - 1) < m
            /\ m >= 1 => n >= 1

C8_Witness ==
  /\ view # <<>>
  /\ \E k \in 1..Len(view[1].items) :
       /\ view[1].items[k].className = "unmerged-file-status-conflicts"
       /\ view[1].unmergedFiles[k].conflictMarkers = 7
       /\ view[1].items[k].humanReadableConflicts = 3

\* C9: an invocation whose awaited operation was rejected has neither
\* navigated nor dismissed; navigation happens only after a fulfilled
\* createMergeCommit; and the dialog is closed only by an invocation that was
\* not rejected.
C9_RejectionStopsHandler ==
  /\ \A i \in 1..Len(calls) :
       HasOp(calls[i].trace, "rejected") =>
         /\ ~HasOp(calls[i].trace, "changeRepositorySection")
         /\ ~HasOp(calls[i].trace, "onDismissed")
         /\ Len(calls[i].trace) = 2
  /\ \A i \in 1..Len(calls) :
       HasOp(calls[i].trace, "changeRepositorySection") =>
         /\ calls[i].handler = "onSubmit"
         /\ Before(calls[i].trace, "resolved", "changeRepositorySection")
  /\ ~open =>
       \E i \in 1..Len(calls) :
         /\ ~HasOp(calls[i].trace, "rejected")
         /\ HasOp(calls[i].trace, "onDismissed")

C9_Witness ==
  /\ open
  /\ \E i, j \in 1..Len(calls) :
       /\ calls[i].handler = "onSubmit"
       /\ HasOp(calls[i].trace, "rejected")
       /\ calls[j].handler = "onCancel"
       /\ HasOp(calls[j].trace, "rejected")

Occurrences(ops) ==
  Cardinality({e \in UNION {{i} \X (1..Len(calls[i].trace)) : i \in 1..Len(calls)} :
                 calls[e[1]].trace[e[2]].op \in ops})

\* C10, as stated: in one dialog session onDismissed is called at most once
\* and at most one of createMergeCommit, abortMerge is started.
C10_AtMostOneOperationAndDismissal ==
  /\ Occurrences({"onDismissed"}) <= 1
  /\ Occurrences({"createMergeCommit", "abortMerge"}) <= 1

====
